---- MODULE Spec2Model ----
(***************************************************************************)
(* A model of ami_camera_utils: the rename pipeline (photo_renamer.py) and *)
(* the interval-sampling pipeline (photo_sampler.py).                      *)
(*                                                                         *)
(* A datetime is a record [ord, sec]: the proleptic Gregorian day ordinal  *)
(* (0001-01-01 is day 1) and the second of that day.  A path is a record   *)
(* [parent, stem, suffix]: the directory as a sequence of components, and  *)
(* the file name split at its last dot, as pathlib's .parent, .stem and    *)
(* .suffix give them.  The filesystem is a function from the paths that    *)
(* exist to the content stored there, plus the set of directories.         *)
(***************************************************************************)
EXTENDS Integers, Sequences, FiniteSets, TLC

VARIABLES
    pc,                      \* position of the running command or function
    args,                    \* the arguments of the running command or function
    fs,                      \* filesystem: path -> content, for the files that exist
    dirs,                    \* filesystem: the directories that exist
    image_files,             \* find_image_files' result, in discovery order
    timestamped_files,       \* sampler: <<path, corrected_dt>> pairs
    idx,                     \* index of the loop item being processed
    current_interval_start,  \* sampler sweep
    next_interval_start,     \* sampler sweep
    sampled_images,          \* sampler: the samples selected so far
    results,                 \* renamer: the transfer plans of process_images
    count,                   \* processed_count / copied_count
    console,                 \* kinds of the per-file messages printed by the transfer loop
    ret,                     \* value returned by the function under a direct call
    fs0,                     \* the filesystem when the command started
    dirs0,                   \* the directories when the command started
    ext_writes,              \* writes another writer made to the filesystem during the run
    runs,                    \* earlier runs of the same command that went through their transfers
    earlier                  \* an earlier direct call of the function: its arguments and what it returned

vars == <<pc, args, fs, dirs, image_files, timestamped_files, idx,
          current_interval_start, next_interval_start, sampled_images,
          results, count, console, ret, fs0, dirs0, ext_writes, runs, earlier>>

\* Python's None, where a datetime or a path is expected
None == [none |-> TRUE]

\* output_dir = None
NoDir == << >>

(***************************************************************************)
(* Bounds of the model.                                                    *)
(***************************************************************************)
MaxPhotos == 3          \* files in the input directory (function-level sampler)
MaxTick == 5            \* EXIF times are BaseTime + k * TickSeconds, k in 0..MaxTick
TickSeconds == 30       \* spacing of the EXIF times drawn, in seconds
MaxInterval == 2        \* interval_minutes is drawn from 1..MaxInterval
MaxCmdPhotos == 3       \* files in the input directory (command-level runs)
MaxExternal == 2        \* writes by another writer during one run
MaxRuns == 1            \* repetitions of a command after its first run
MaxSweepPhotos == 2     \* files in the input directory (termination of the sweep)

(***************************************************************************)
(* datetime and timedelta arithmetic.                                      *)
(***************************************************************************)
SecondsPerDay == 86400
SecondsPerHour == 3600
SecondsPerMinute == 60

\* faulty variant: the hours and minutes that make up whole days are dropped
Timedelta_NoDayCarry(days, hours, minutes) ==
    LET s == hours * SecondsPerHour + minutes * SecondsPerMinute
    IN  [days |-> days, seconds |-> s % SecondsPerDay]

\* datetime.timedelta(days=, hours=, minutes=): normalised to days and
\* 0 <= seconds < 86400.
Timedelta(days, hours, minutes) ==
    LET s == hours * SecondsPerHour + minutes * SecondsPerMinute
    IN  [days |-> days + (s \div SecondsPerDay), seconds |-> s % SecondsPerDay]

\* datetime + timedelta
DtPlus(dt, td) ==
    LET s == dt.sec + td.seconds
    IN  [ord |-> dt.ord + td.days + (s \div SecondsPerDay), sec |-> s % SecondsPerDay]

\* the ordinals of datetime.min (0001-01-01) and datetime.max (9999-12-31)
MinOrdinal == 1
MaxOrdinal == 3652059

\* datetime + timedelta raises OverflowError when the sum is no datetime
OverflowError == [raised |-> "OverflowError"]

InRange(dt) == MinOrdinal <= dt.ord /\ dt.ord <= MaxOrdinal

\* datetime >= datetime
DtGE(a, b) == a.ord > b.ord \/ (a.ord = b.ord /\ a.sec >= b.sec)

DtLT(a, b) == ~DtGE(a, b)

\* a - b in seconds, for datetimes a few days apart
DtDiffSeconds(a, b) == (a.ord - b.ord) * SecondsPerDay + (a.sec - b.sec)

(***************************************************************************)
(* strftime("%Y%m%d%H%M%S"): the calendar date of a day ordinal, and the   *)
(* fields written as decimal digits.                                       *)
(***************************************************************************)
DaysIn400Years == 146097
DaysIn100Years == 36524
DaysIn4Years == 1461
DaysInYear == 365

DAYS_IN_MONTH == <<31, 28, 31, 30, 31, 30, 31, 31, 30, 31, 30, 31>>

DAYS_BEFORE_MONTH == <<0, 31, 59, 90, 120, 151, 181, 212, 243, 273, 304, 334>>

\* ordinal -> [year, month, day], 0001-01-01 being day 1
Ord2Ymd(ordinal) ==
    LET n0 == ordinal - 1
        n400 == n0 \div DaysIn400Years
        r400 == n0 % DaysIn400Years
        n100 == r400 \div DaysIn100Years
        r100 == r400 % DaysIn100Years
        n4 == r100 \div DaysIn4Years
        r4 == r100 % DaysIn4Years
        n1 == r4 \div DaysInYear
        n == r4 % DaysInYear
        year == n400 * 400 + 1 + n100 * 100 + n4 * 4 + n1
        leapyear == n1 = 3 /\ (n4 # 24 \/ n100 = 3)
        leap(m) == IF m > 2 /\ leapyear THEN 1 ELSE 0
        est == (n + 50) \div 32
        before == DAYS_BEFORE_MONTH[est] + leap(est)
        month == IF before > n THEN est - 1 ELSE est
        preceding == IF before > n
                     THEN before - (DAYS_IN_MONTH[month]
                                    + (IF month = 2 /\ leapyear THEN 1 ELSE 0))
                     ELSE before
    IN  IF n1 = 4 \/ n100 = 4
        THEN [year |-> year - 1, month |-> 12, day |-> 31]
        ELSE [year |-> year, month |-> month, day |-> n - preceding + 1]

DigitChar == <<"0", "1", "2", "3", "4", "5", "6", "7", "8", "9">>

RECURSIVE Decimal(_)
\* a natural number in decimal, without padding
Decimal(n) ==
    IF n < 10 THEN DigitChar[n + 1]
    ELSE Decimal(n \div 10) \o DigitChar[(n % 10) + 1]

\* %m, %d, %H, %M, %S: two digits, zero-padded
Pad2(n) == DigitChar[(n \div 10) + 1] \o DigitChar[(n % 10) + 1]

\* %Y: the C library writes the year as a plain decimal number, so a year
\* below 1000 comes out with fewer than four digits.
YearField(year) == Decimal(year)

\* timestamp.strftime("%Y%m%d%H%M%S")
Strftime(dt) ==
    LET ymd == Ord2Ymd(dt.ord)
        hh == dt.sec \div SecondsPerHour
        mm == (dt.sec % SecondsPerHour) \div SecondsPerMinute
        ss == dt.sec % SecondsPerMinute
    IN  YearField(ymd.year) \o Pad2(ymd.month) \o Pad2(ymd.day)
            \o Pad2(hh) \o Pad2(mm) \o Pad2(ss)

(***************************************************************************)
(* Paths.                                                                  *)
(***************************************************************************)
Path(parent, stem, suffix) == [parent |-> parent, stem |-> stem, suffix |-> suffix]

\* Path.name
PathName(p) == p.stem \o p.suffix

\* str.lower() on the suffixes that occur
LowerTable ==
    [s \in {".jpg", ".JPG", ".Jpg", ".png", ".PNG", ".tiff", ".txt", ".TXT", ""} |->
        CASE s \in {".jpg", ".JPG", ".Jpg"} -> ".jpg"
          [] s \in {".png", ".PNG"} -> ".png"
          [] s \in {".txt", ".TXT"} -> ".txt"
          [] OTHER -> s]

Lower(s) == LowerTable[s]

image_extensions == {".jpg", ".jpeg", ".png", ".tif", ".tiff", ".gif", ".bmp"}

(***************************************************************************)
(* File content: an identity for the bytes, and the EXIF tags of the       *)
(* image.  A tag is absent, holds a well-formed 'YYYY:MM:DD HH:MM:SS'      *)
(* string (modelled by the datetime it encodes), or holds Malformed text.  *)
(* A content with readable = FALSE cannot be opened.                       *)
(***************************************************************************)
Absent == [absent |-> TRUE]

Malformed == [malformed |-> TRUE]

ExifTags == <<"EXIF DateTimeOriginal", "EXIF DateTimeDigitized", "Image DateTime">>

NoTags == [t \in {ExifTags[i] : i \in 1..3} |-> Absent]

Content(id, tags) == [id |-> id, readable |-> TRUE, tags |-> tags]

\* a photo whose original-capture tag holds dt (None: a photo with no tags;
\* Malformed: the original-capture tag does not parse, and the generic tag
\* holds 2024-03-24 23:58:30)
Photo(id, dt) ==
    Content(id, IF dt = None THEN NoTags
                ELSE IF dt = Malformed
                THEN [NoTags EXCEPT !["EXIF DateTimeOriginal"] = Malformed,
                                    !["Image DateTime"] = [ord |-> 738969, sec |-> 86310]]
                ELSE [NoTags EXCEPT !["EXIF DateTimeOriginal"] = dt])

RECURSIVE FirstTag_FallsThrough(_, _)
\* faulty variant: a tag that does not parse is passed over for the next one
FirstTag_FallsThrough(tags, i) ==
    IF i > Len(ExifTags) THEN None
    ELSE IF tags[ExifTags[i]] # Absent /\ tags[ExifTags[i]] # Malformed
         THEN tags[ExifTags[i]]
         ELSE FirstTag_FallsThrough(tags, i + 1)

RECURSIVE FirstTag(_, _)
\* the loop over the three tags, in order of preference
FirstTag(tags, i) ==
    IF i > Len(ExifTags) THEN None
    ELSE IF tags[ExifTags[i]] # Absent
         THEN (IF tags[ExifTags[i]] = Malformed THEN None ELSE tags[ExifTags[i]])
         ELSE FirstTag(tags, i + 1)

\* get_exif_datetime(file_path) on filesystem f
get_exif_datetime(f, file_path) ==
    IF file_path \notin DOMAIN f \/ ~f[file_path].readable THEN None
    ELSE FirstTag(f[file_path].tags, 1)

\* faulty variant: a datetime at midnight is taken for a missing one
apply_date_offset_MidnightFalsy(dt, days, hours, minutes) ==
    IF dt = None \/ dt.sec = 0 THEN None
    ELSE LET sum == DtPlus(dt, Timedelta(days, hours, minutes))
         IN  IF InRange(sum) THEN sum ELSE OverflowError

\* apply_date_offset(dt, days, hours, minutes)
apply_date_offset(dt, days, hours, minutes) ==
    IF dt = None THEN None
    ELSE LET sum == DtPlus(dt, Timedelta(days, hours, minutes))
         IN  IF InRange(sum) THEN sum ELSE OverflowError

\* generate_new_filepath(original_path, timestamp, prefix, output_dir)
generate_new_filepath(original_path, timestamp, prefix, output_dir) ==
    LET time_str == Strftime(timestamp)
        extension == Lower(original_path.suffix)
        new_stem == prefix \o "-" \o time_str
    IN  IF output_dir # NoDir
        THEN Path(output_dir, new_stem, extension)
        ELSE Path(original_path.parent, new_stem, extension)


(***************************************************************************)
(* Direct calls of the pure functions, on inputs drawn from small sets:    *)
(* one call per run.                                                       *)
(***************************************************************************)
Dt(ord, sec) == [ord |-> ord, sec |-> sec]

\* 2024-03-24 10:30:45, 2025-05-16 14:30:45, 2024-02-29 23:59:59,
\* 2023-12-31 23:59:30, 2024-03-24 00:00:00, 0999-12-31 23:59:59,
\* 1000-01-01 00:00:00, 0001-01-01 00:00:00 and 9999-12-31 23:59:59
CallDatetimes ==
    { Dt(738969, 37845), Dt(739387, 52245), Dt(738945, 86399),
      Dt(738885, 86370), Dt(738969, 0), Dt(364877, 86399), Dt(364878, 0),
      Dt(MinOrdinal, 0), Dt(MaxOrdinal, 86399) }

CallDays == {-418, -1, 0, 1}

CallHours == {-25, 0, 2}

CallMinutes == {-30, 0, 90}

CallPaths ==
    { Path(<<"test", "dir">>, "original", sfx) : sfx \in {".jpg", ".JPG", ".png", ".PNG"} }

CallPrefixes == {"entocamtest", "custom"}

CallOutputDirs == {NoDir, <<"output">>}

NoArgs == [fn |-> "none"]

\* the variables of the pipelines, when no pipeline runs
IdlePipelines ==
    /\ fs = << >> /\ dirs = {} /\ fs0 = << >> /\ dirs0 = {}
    /\ image_files = << >> /\ timestamped_files = << >> /\ idx = 0
    /\ current_interval_start = None /\ next_interval_start = None
    /\ sampled_images = << >> /\ results = << >> /\ count = 0
    /\ console = << >> /\ ext_writes = 0 /\ runs = 0 /\ earlier = None

PipelineVars ==
    <<fs, dirs, fs0, dirs0, image_files, timestamped_files, idx,
      current_interval_start, next_interval_start, sampled_images,
      results, count, console, ext_writes, runs, earlier>>

InitCalls ==
    /\ pc = "call" /\ args = NoArgs /\ ret = None
    /\ IdlePipelines

Call_apply_date_offset ==
    /\ pc = "call"
    /\ \E dt \in CallDatetimes \cup {None}, days \in CallDays,
          hours \in CallHours, minutes \in CallMinutes :
          /\ args' = [fn |-> "apply_date_offset", dt |-> dt, days |-> days,
                      hours |-> hours, minutes |-> minutes]
          /\ ret' = apply_date_offset(dt, days, hours, minutes)
    /\ pc' = "called"
    /\ UNCHANGED PipelineVars

Call_generate_new_filepath ==
    /\ pc = "call"
    /\ \E original_path \in CallPaths, timestamp \in CallDatetimes,
          prefix \in CallPrefixes, output_dir \in CallOutputDirs :
          /\ args' = [fn |-> "generate_new_filepath", original_path |-> original_path,
                      timestamp |-> timestamp, prefix |-> prefix,
                      output_dir |-> output_dir]
          /\ ret' = generate_new_filepath(original_path, timestamp, prefix, output_dir)
    /\ pc' = "called"
    /\ UNCHANGED PipelineVars

\* apply_date_offset applied to its own result: an exception of the first
\* call leaves the expression, and the second call is not made
Call_apply_date_offset_twice ==
    /\ pc = "call"
    /\ \E dt \in CallDatetimes, d1 \in CallDays, h1 \in CallHours, m1 \in CallMinutes,
          d2 \in CallDays, h2 \in CallHours, m2 \in CallMinutes :
          /\ args' = [fn |-> "apply_date_offset_twice", dt |-> dt,
                      d1 |-> d1, h1 |-> h1, m1 |-> m1,
                      d2 |-> d2, h2 |-> h2, m2 |-> m2]
          /\ ret' = LET first == apply_date_offset(dt, d1, h1, m1)
                    IN  IF first = OverflowError THEN OverflowError
                        ELSE apply_date_offset(first, d2, h2, m2)
    /\ pc' = "called"
    /\ UNCHANGED PipelineVars

\* the values of one EXIF tag: absent, text that does not parse, or one of
\* two datetimes
CallTagValues == {Absent, Malformed, Dt(738969, 37845), Dt(739387, 52245)}

CallImage == Path(<<"test", "dir">>, "test", ".jpg")

\* the file get_exif_datetime is called on: missing, unreadable, or an image
\* with any combination of the three tags
CallFiles ==
    { << >> }
      \cup { [p \in {CallImage} |-> [id |-> 1, readable |-> r, tags |-> t]] :
               r \in BOOLEAN, t \in [{ExifTags[i] : i \in 1..3} -> CallTagValues] }

Call_get_exif_datetime ==
    /\ pc = "call"
    /\ \E f \in CallFiles :
          /\ args' = [fn |-> "get_exif_datetime", file_path |-> CallImage, files |-> f]
          /\ ret' = get_exif_datetime(f, CallImage)
    /\ pc' = "called"
    /\ UNCHANGED PipelineVars

NextCalls ==
    \/ Call_apply_date_offset \/ Call_generate_new_filepath
    \/ Call_apply_date_offset_twice \/ Call_get_exif_datetime

SpecCalls == InitCalls /\ [][NextCalls]_vars


(***************************************************************************)
(* find_image_files and the sampler's helpers.                             *)
(***************************************************************************)
RECURSIVE ListingOf(_)
\* the entries of a directory walk come in an order the filesystem decides:
\* some fixed enumeration of the set
ListingOf(S) ==
    IF S = {} THEN << >>
    ELSE LET p == CHOOSE q \in S : TRUE
         IN  <<p>> \o ListingOf(S \ {p})

IsPrefix(a, b) == Len(a) <= Len(b) /\ SubSeq(b, 1, Len(a)) = a

\* find_image_files(directory, recursive) on filesystem f
find_image_files(f, directory, recursive) ==
    ListingOf({ p \in DOMAIN f :
                  /\ IF recursive THEN IsPrefix(directory, p.parent)
                                  ELSE p.parent = directory
                  /\ Lower(p.suffix) \in image_extensions })

RECURSIVE TimestampedFiles(_, _, _, _)
\* the loop that builds timestamped_files: a file without an EXIF datetime
\* is passed over, the others get their corrected datetime
TimestampedFiles(f, files, a, i) ==
    IF i > Len(files) THEN << >>
    ELSE LET exif_dt == get_exif_datetime(f, files[i])
             rest == TimestampedFiles(f, files, a, i + 1)
         IN  IF exif_dt = None THEN rest
             ELSE <<[path |-> files[i],
                     dt |-> apply_date_offset(exif_dt, a.days_offset,
                                              a.hours_offset, a.minutes_offset)]>>
                  \o rest

RECURSIVE InsertByDt_BeforeEqual(_, _)
\* faulty variant: x goes in front of the elements with an equal key
InsertByDt_BeforeEqual(sorted, x) ==
    IF sorted = << >> THEN <<x>>
    ELSE IF DtGE(x.dt, sorted[1].dt) /\ x.dt # sorted[1].dt
         THEN <<sorted[1]>> \o InsertByDt_BeforeEqual(Tail(sorted), x)
         ELSE <<x>> \o sorted

RECURSIVE InsertByDt(_, _)
\* insert x behind every element whose key is not greater: a stable insertion
InsertByDt(sorted, x) ==
    IF sorted = << >> THEN <<x>>
    ELSE IF DtGE(x.dt, sorted[1].dt)
         THEN <<sorted[1]>> \o InsertByDt(Tail(sorted), x)
         ELSE <<x>> \o sorted

RECURSIVE SortByDt(_)
\* timestamped_files.sort(key=lambda x: x[1]); Python's sort is stable
SortByDt(files) ==
    IF files = << >> THEN << >>
    ELSE InsertByDt(SortByDt(SubSeq(files, 1, Len(files) - 1)), files[Len(files)])

\* faulty variant: the interval is lost and the delta is zero
interval_delta_Zero(interval_minutes) == Timedelta(0, 0, 0)

\* interval_delta = datetime.timedelta(minutes=interval_minutes)
interval_delta(interval_minutes) == Timedelta(0, 0, interval_minutes)

\* faulty variant: the test of the sweep as timestamp > next_interval_start
StartsNewInterval_Strict(timestamp, nis) == DtGE(timestamp, nis) /\ timestamp # nis

\* the test of the sweep: timestamp >= next_interval_start
StartsNewInterval(timestamp, nis) == DtGE(timestamp, nis)

\* faulty variant: the entry reports the photo's own time as its interval start
SampleOf_PhotoTime(image_path, timestamp, cis) ==
    [original_path |-> image_path, timestamp |-> timestamp, interval_start |-> timestamp]

\* the entry appended to sampled_images
SampleOf(image_path, timestamp, cis) ==
    [original_path |-> image_path, timestamp |-> timestamp, interval_start |-> cis]

\* the first sample is taken when no sample exists yet
FirstIntervalOpen(samples) == Len(samples) = 0

(***************************************************************************)
(* process_images_for_sampling.                                            *)
(***************************************************************************)
SweepVars == <<current_interval_start, next_interval_start, sampled_images, idx>>

FsVars == <<fs, dirs, fs0, dirs0, ext_writes, runs, earlier>>

\* apply_date_offset raised for one of the files: dt + delta left the years
\* datetime can hold
OffsetOverflows(stamped) ==
    \E i \in 1..Len(stamped) : stamped[i].dt = OverflowError

\* current_interval_start + interval_delta, an OverflowError when the sum
\* is a date datetime cannot hold
NextIntervalStart(cis, interval_minutes) ==
    LET sum == DtPlus(cis, interval_delta(interval_minutes))
    IN  IF InRange(sum) THEN sum ELSE OverflowError

\* lines 117-134: discover, extract and correct; return [] when nothing has
\* a timestamp; an exception of apply_date_offset leaves the function
S_Collect ==
    /\ pc = "collect"
    /\ image_files' = find_image_files(fs, args.directory, args.recursive)
    /\ timestamped_files' = TimestampedFiles(fs, image_files', args, 1)
    /\ IF OffsetOverflows(timestamped_files')
       THEN pc' = "raised" /\ ret' = ret
       ELSE IF timestamped_files' = << >>
            THEN pc' = "returned" /\ ret' = << >>
            ELSE pc' = "sort" /\ ret' = ret
    /\ UNCHANGED <<args, SweepVars, FsVars, results, count, console>>

\* faulty variant: the first interval starts on the full hour before the
\* first timestamp
FirstIntervalStart_OnTheHour(sorted) ==
    [ord |-> sorted[1].dt.ord,
     sec |-> sorted[1].dt.sec - (sorted[1].dt.sec % SecondsPerHour)]

\* line 147: current_interval_start = timestamped_files[0][1]
FirstIntervalStart(sorted) == sorted[1].dt

\* lines 136-148: sort, and open the first interval at the first timestamp;
\* an OverflowError of the addition leaves the function
S_Sort ==
    /\ pc = "sort"
    /\ timestamped_files' = SortByDt(timestamped_files)
    /\ current_interval_start' = FirstIntervalStart(timestamped_files')
    /\ IF InRange(DtPlus(current_interval_start',
                         interval_delta(args.interval_minutes)))
       THEN /\ pc' = "for"
            /\ next_interval_start' =
                   NextIntervalStart(current_interval_start', args.interval_minutes)
       ELSE pc' = "raised" /\ UNCHANGED next_interval_start
    /\ sampled_images' = << >>
    /\ idx' = 1
    /\ UNCHANGED <<args, FsVars, image_files, results, count, console, ret>>

\* lines 151-153 and 165-172: the next file of the sweep, or the return
S_For ==
    /\ pc = "for"
    /\ IF idx > Len(timestamped_files)
       THEN /\ pc' = "returned"
            /\ ret' = sampled_images
            /\ UNCHANGED SweepVars
       ELSE LET item == timestamped_files[idx]
            IN  /\ ret' = ret
                /\ IF StartsNewInterval(item.dt, next_interval_start)
                   THEN pc' = "while" /\ UNCHANGED SweepVars
                   ELSE /\ pc' = "for"
                        /\ idx' = idx + 1
                        /\ sampled_images' =
                               IF FirstIntervalOpen(sampled_images)
                               THEN Append(sampled_images,
                                           SampleOf(item.path, item.dt,
                                                    current_interval_start))
                               ELSE sampled_images
                        /\ UNCHANGED <<current_interval_start, next_interval_start>>
    /\ UNCHANGED <<args, FsVars, image_files, timestamped_files, results, count, console>>

\* faulty variant: the window is advanced once (an if in place of the while)
S_While_AdvanceOnce ==
    /\ pc = "while"
    /\ LET item == timestamped_files[idx]
       IN  /\ current_interval_start' = next_interval_start
           /\ next_interval_start' =
                  DtPlus(next_interval_start, interval_delta(args.interval_minutes))
           /\ sampled_images' =
                  Append(sampled_images,
                         SampleOf(item.path, item.dt, next_interval_start))
           /\ idx' = idx + 1
           /\ pc' = "for"
    /\ UNCHANGED <<args, FsVars, image_files, timestamped_files, results, count, console, ret>>

\* lines 155-163: one turn of the window-advance loop (an OverflowError of
\* the addition leaves the function), or its exit with the file appended as
\* the sample of the interval reached
S_While ==
    /\ pc = "while"
    /\ LET item == timestamped_files[idx]
       IN  IF StartsNewInterval(item.dt, next_interval_start)
           THEN /\ current_interval_start' = next_interval_start
                /\ next_interval_start' =
                       NextIntervalStart(next_interval_start, args.interval_minutes)
                /\ pc' = IF next_interval_start' = OverflowError
                         THEN "raised" ELSE pc
                /\ UNCHANGED <<idx, sampled_images>>
           ELSE /\ sampled_images' =
                       Append(sampled_images,
                              SampleOf(item.path, item.dt, current_interval_start))
                /\ idx' = idx + 1
                /\ pc' = "for"
                /\ UNCHANGED <<current_interval_start, next_interval_start>>
    /\ UNCHANGED <<args, FsVars, image_files, timestamped_files, results, count, console, ret>>

NextSampling == S_Collect \/ S_Sort \/ S_For \/ S_While

(***************************************************************************)
(* Inputs of process_images_for_sampling: up to MaxPhotos image files in   *)
(* the directory, each with an EXIF time BaseTime + k * TickSeconds or     *)
(* with no EXIF datetime, and one file that is no image.                   *)
(***************************************************************************)
\* 2024-03-24 23:58:30
BaseTime == Dt(738969, 86310)

Seconds(n) == [days |-> n \div SecondsPerDay, seconds |-> n % SecondsPerDay]

ExifTimes == { DtPlus(BaseTime, Seconds(k * TickSeconds)) : k \in 0..MaxTick }

SampleOffsets == { <<0, 0, 0>>, <<418, -2, 31>> }

\* what a photo without a usable EXIF datetime holds
NoTimestamp == {None, Malformed}

InputDir == <<"in">>

PhotoPath(i) ==
    Path(InputDir, "IMG_" \o Decimal(i), IF i % 2 = 0 THEN ".JPG" ELSE ".jpg")

NotesFile == Path(InputDir, "notes", ".txt")

\* the files at paths[i] holding photo i with the EXIF time exif[i], and the
\* file that is no image
PhotoDirOf(paths, exif) ==
    [p \in {paths[i] : i \in 1..Len(paths)} \cup {NotesFile} |->
        IF p = NotesFile THEN Content(0, NoTags)
        ELSE LET i == CHOOSE j \in 1..Len(paths) : paths[j] = p
             IN  Photo(i, exif[i])]

\* the directory holding photos 1..n with the EXIF times exif[i]
PhotoDir(n, exif) == PhotoDirOf([i \in 1..n |-> PhotoPath(i)], exif)

SamplingArgs(interval, off) ==
    [fn |-> "process_images_for_sampling", directory |-> InputDir,
     interval_minutes |-> interval, days_offset |-> off[1],
     hours_offset |-> off[2], minutes_offset |-> off[3], recursive |-> TRUE]

IdleLocals ==
    /\ image_files = << >> /\ timestamped_files = << >> /\ idx = 0
    /\ current_interval_start = None /\ next_interval_start = None
    /\ sampled_images = << >> /\ results = << >> /\ count = 0
    /\ console = << >> /\ ret = None

\* two photos an hour apart, sampled every 10 minutes
GapExampleFs == PhotoDir(2, <<Dt(738969, 0), Dt(738969, 3600)>>)

InitSampling ==
    /\ pc = "collect"
    /\ \/ \E n \in 0..MaxPhotos, interval \in 1..MaxInterval, off \in SampleOffsets :
            \E exif \in [1..n -> ExifTimes \cup NoTimestamp] :
               /\ fs = PhotoDir(n, exif)
               /\ args = SamplingArgs(interval, off)
       \/ /\ fs = GapExampleFs
          /\ args = SamplingArgs(10, <<0, 0, 0>>)
    /\ dirs = {InputDir}
    /\ fs0 = fs /\ dirs0 = dirs /\ ext_writes = 0 /\ runs = 0 /\ earlier = None
    /\ IdleLocals

SpecSampling == InitSampling /\ [][NextSampling]_vars

(***************************************************************************)
(* process_images_for_sampling called twice on one directory, with two     *)
(* offsets.                                                                *)
(***************************************************************************)
\* the offsets of the second call
OtherOffsets == { <<0, 0, 0>>, <<418, -2, 31>>, <<-1, 25, -90>>, <<1, 0, 0>> }

\* 23:40:00, 23:50:00 and 23:59:30 on the last day datetime can hold
LastDayTimes == { Dt(MaxOrdinal, 85200), Dt(MaxOrdinal, 85800), Dt(MaxOrdinal, 86370) }

\* the function has returned and is called again with the same directory,
\* interval and recursion flag and with another offset; what the first call
\* returned is kept for the comparison
S_CallAgain ==
    /\ pc = "returned"
    /\ args.fn = "process_images_for_sampling"
    /\ earlier = None
    /\ earlier' = [args |-> args, ret |-> ret]
    /\ \E off \in OtherOffsets :
          /\ off # <<args.days_offset, args.hours_offset, args.minutes_offset>>
          /\ args' = [args EXCEPT !.days_offset = off[1], !.hours_offset = off[2],
                                  !.minutes_offset = off[3]]
    /\ pc' = "collect"
    /\ image_files' = << >> /\ timestamped_files' = << >> /\ idx' = 0
    /\ current_interval_start' = None /\ next_interval_start' = None
    /\ sampled_images' = << >> /\ ret' = None
    /\ UNCHANGED <<fs, dirs, fs0, dirs0, ext_writes, runs, results, count, console>>

NextTwoOffsets == NextSampling \/ S_CallAgain

InitTwoOffsets ==
    /\ pc = "collect"
    /\ \/ \E n \in 0..MaxPhotos, interval \in 1..MaxInterval, off \in SampleOffsets :
            \E exif \in [1..n -> ExifTimes \cup {None}] :
               /\ fs = PhotoDir(n, exif)
               /\ args = SamplingArgs(interval, off)
       \/ \E interval \in 1..MaxInterval, exif \in [1..2 -> LastDayTimes] :
             /\ fs = PhotoDir(2, exif)
             /\ args = SamplingArgs(interval, <<0, 0, 0>>)
    /\ dirs = {InputDir}
    /\ fs0 = fs /\ dirs0 = dirs /\ ext_writes = 0 /\ runs = 0 /\ earlier = None
    /\ IdleLocals

SpecTwoOffsets == InitTwoOffsets /\ [][NextTwoOffsets]_vars

\* the position of the function: its statement and the state of its sweep
SweepPosition == <<pc, idx, current_interval_start, next_interval_start>>

\* the sweep over up to MaxSweepPhotos photos with a timestamp, for the
\* interval widths of Widths; ret holds a list from the start, the empty one
\* until the function returns
InitSweep(Widths) ==
    /\ pc = "collect"
    /\ \/ \E n \in 1..MaxSweepPhotos, interval \in Widths :
            \E exif \in [1..n -> ExifTimes] :
               /\ fs = PhotoDir(n, exif)
               /\ args = SamplingArgs(interval, <<0, 0, 0>>)
       \/ /\ fs = GapExampleFs
          /\ args = SamplingArgs(10, <<0, 0, 0>>)
    /\ dirs = {InputDir}
    /\ fs0 = fs /\ dirs0 = dirs /\ ext_writes = 0 /\ runs = 0 /\ earlier = None
    /\ image_files = << >> /\ timestamped_files = << >> /\ idx = 0
    /\ current_interval_start = None /\ next_interval_start = None
    /\ sampled_images = << >> /\ results = << >> /\ count = 0
    /\ console = << >> /\ ret = << >>

\* the function runs on: a statement that can be executed is executed
SweepRunsOn == WF_SweepPosition(NextSampling)

\* positive interval widths
SpecSweepFair == InitSweep(1..MaxInterval) /\ [][NextSampling]_vars /\ SweepRunsOn

\* the interval widths the --interval option accepts, from 0 on
SpecAnyIntervalFair == InitSweep(0..MaxInterval) /\ [][NextSampling]_vars /\ SweepRunsOn


(***************************************************************************)
(* Properties of process_images_for_sampling (checked under SpecSampling). *)
(***************************************************************************)
\* the corrected timestamps of the image files of the directory, from the
\* photos' EXIF data and the offset
CorrectedTimes ==
    { apply_date_offset(get_exif_datetime(fs0, p), args.days_offset,
                        args.hours_offset, args.minutes_offset) :
        p \in { q \in DOMAIN fs0 : /\ Lower(q.suffix) \in image_extensions
                                   /\ IsPrefix(args.directory, q.parent)
                                   /\ get_exif_datetime(fs0, q) # None } }

EarliestOf(T) == CHOOSE t \in T : \A u \in T : DtGE(u, t)

LatestOf(T) == CHOOSE t \in T : \A u \in T : DtGE(t, u)

WidthSeconds == args.interval_minutes * SecondsPerMinute

\* the index k of the window [t0 + k*w, t0 + (k+1)*w) that holds t
WindowOf(t) == DtDiffSeconds(t, EarliestOf(CorrectedTimes)) \div WidthSeconds

WindowStart(k) == DtPlus(EarliestOf(CorrectedTimes), Seconds(k * WidthSeconds))

PopulatedWindows == { WindowOf(t) : t \in CorrectedTimes }

SamplingReturned == pc = "returned" /\ args.fn = "process_images_for_sampling"

\* C1: for a positive interval width the sampler returns exactly one sample
\* per populated window [t0 + k*w, t0 + (k+1)*w), t0 the earliest corrected
\* timestamp; the sample is the earliest photo of its window; the first photo
\* in time is selected; photos that all share one timestamp give one sample.
C1_OneSamplePerPopulatedWindow ==
    (SamplingReturned /\ CorrectedTimes # {}) =>
        /\ Len(ret) = Cardinality(PopulatedWindows)
        /\ \A k \in PopulatedWindows :
               Cardinality({ i \in 1..Len(ret) : WindowOf(ret[i].timestamp) = k }) = 1
        /\ \A i \in 1..Len(ret) :
               /\ ret[i].timestamp =
                      EarliestOf({ t \in CorrectedTimes :
                                     WindowOf(t) = WindowOf(ret[i].timestamp) })
               /\ ret[i].original_path \in DOMAIN fs0
               /\ apply_date_offset(get_exif_datetime(fs0, ret[i].original_path),
                                    args.days_offset, args.hours_offset,
                                    args.minutes_offset) = ret[i].timestamp
        /\ \E i \in 1..Len(ret) : ret[i].timestamp = EarliestOf(CorrectedTimes)
        /\ (Cardinality(CorrectedTimes) = 1 => Len(ret) = 1)

\* C1 witness: three timestamped photos, two of them in one window, gave two
\* samples
C1_Witness ==
    /\ SamplingReturned
    /\ Len(timestamped_files) = 3
    /\ Len(ret) = 2
    /\ Cardinality(CorrectedTimes) = 3

\* C2: the returned sequence is strictly increasing in interval_start and
\* every entry has interval_start <= timestamp < interval_start + w.
C2_IncreasingAndInsideWindow ==
    SamplingReturned =>
        /\ \A i \in 1..Len(ret) :
               /\ DtGE(ret[i].timestamp, ret[i].interval_start)
               /\ DtLT(ret[i].timestamp,
                       DtPlus(ret[i].interval_start, Seconds(WidthSeconds)))
        /\ \A i \in 1..(Len(ret) - 1) :
               /\ DtLT(ret[i].interval_start, ret[i + 1].interval_start)
               /\ DtLT(ret[i].timestamp, ret[i + 1].timestamp)

\* C2 witness: a return with three samples, the second one strictly inside its
\* window
C2_Witness ==
    /\ SamplingReturned
    /\ Len(ret) = 3
    /\ ret[2].timestamp # ret[2].interval_start

\* C3: every reported interval_start is t0 + k*w for an integer k >= 0, the
\* window reached contains the photo, no entry stands for a window without
\* photos, and photos at 0:00 and 1:00 with a 10-minute width give 2 samples.
C3_WindowsOnGridNoEmptyWindow ==
    (SamplingReturned /\ CorrectedTimes # {}) =>
        /\ \A i \in 1..Len(ret) :
               \E k \in 0..WindowOf(LatestOf(CorrectedTimes)) :
                   /\ ret[i].interval_start = WindowStart(k)
                   /\ WindowOf(ret[i].timestamp) = k
                   /\ k \in PopulatedWindows
        /\ (fs0 = GapExampleFs /\ args.interval_minutes = 10 => Len(ret) = 2)

\* C3 witness: the two photos an hour apart returned two samples, the second
\* in the window that starts at 1:00
C3_Witness ==
    /\ SamplingReturned
    /\ fs0 = GapExampleFs
    /\ args.interval_minutes = 10
    /\ Len(ret) = 2
    /\ ret[2].interval_start = Dt(738969, 3600)


(***************************************************************************)
(* The rename command: rename, process_images, process_files.              *)
(***************************************************************************)
\* actual_output_dir = None if inplace else output_dir
actual_output_dir(a) == IF a.inplace THEN NoDir ELSE a.output_dir

\* the entry appended to results for one image with an EXIF datetime
PlanOf(f, image_path, a, output_dir) ==
    LET exif_dt == get_exif_datetime(f, image_path)
        corrected_dt == apply_date_offset(exif_dt, a.days_offset, a.hours_offset,
                                          a.minutes_offset)
    IN  [original_path |-> image_path,
         exif_datetime |-> exif_dt,
         corrected_datetime |-> corrected_dt,
         new_path |-> generate_new_filepath(image_path, corrected_dt, a.prefix, output_dir),
         is_copy |-> output_dir # NoDir]

RECURSIVE PlansOf_StopsAtUndated(_, _, _, _, _)
\* faulty variant: the loop ends at the first file without an EXIF datetime
PlansOf_StopsAtUndated(f, files, a, output_dir, i) ==
    IF i > Len(files) THEN << >>
    ELSE IF get_exif_datetime(f, files[i]) = None THEN << >>
         ELSE <<PlanOf(f, files[i], a, output_dir)>>
                  \o PlansOf_StopsAtUndated(f, files, a, output_dir, i + 1)

RECURSIVE PlansOf(_, _, _, _, _)
\* the loop of process_images: a file without an EXIF datetime is passed over
PlansOf(f, files, a, output_dir, i) ==
    IF i > Len(files) THEN << >>
    ELSE LET rest == PlansOf(f, files, a, output_dir, i + 1)
         IN  IF get_exif_datetime(f, files[i]) = None THEN rest
             ELSE <<PlanOf(f, files[i], a, output_dir)>> \o rest

\* Path.exists()
Exists(f, p) == p \in DOMAIN f

\* faulty variant: a destination that exists is left as it is
CopyFile_KeepsExisting(f, src, dst) ==
    [p \in DOMAIN f \cup {dst} |-> IF p = dst /\ dst \notin DOMAIN f THEN f[src] ELSE f[p]]

\* shutil.copy2(src, dst): dst holds the bytes and metadata of src
CopyFile(f, src, dst) == [p \in DOMAIN f \cup {dst} |-> IF p = dst THEN f[src] ELSE f[p]]

\* faulty variant: the file is written at dst and stays at src
MoveFile_KeepsSource(f, src, dst) ==
    [p \in DOMAIN f \cup {dst} |-> IF p = dst THEN f[src] ELSE f[p]]

\* Path.rename(dst): the file is at dst and no longer at src
MoveFile(f, src, dst) ==
    [p \in (DOMAIN f \ {src}) \cup {dst} |-> IF p = dst THEN f[src] ELSE f[p]]

\* faulty variant: the destination is never found to exist
DestinationExists_Never(f, item) == FALSE

\* line 226: item["new_path"].exists()
DestinationExists(f, item) == Exists(f, item.new_path)

\* faulty variant: the exception of a transfer leaves process_files
AfterException_Propagates == "raised"

\* lines 240-241: the exception of a transfer is caught and reported, and the
\* loop goes on with the next plan
AfterException == "pf_check"

LocalVars ==
    <<image_files, timestamped_files, idx, current_interval_start,
      next_interval_start, sampled_images, results, count, console, ret>>

\* faulty variant: --inplace together with --output-dir is let through
R_Validate_BothAllowed ==
    /\ pc = "validate"
    /\ IF ~args.inplace /\ args.output_dir = NoDir
       THEN pc' = "exit1"
       ELSE pc' = "plan"
    /\ UNCHANGED <<args, FsVars, LocalVars>>

\* lines 319-327: the option check of rename
R_Validate ==
    /\ pc = "validate"
    /\ IF (~args.inplace /\ args.output_dir = NoDir)
          \/ (args.inplace /\ args.output_dir # NoDir)
       THEN pc' = "exit1"
       ELSE pc' = "plan"
    /\ UNCHANGED <<args, FsVars, LocalVars>>

\* faulty variant: the output directory is created in a dry run too
R_ProcessImages_MkdirInDryRun ==
    /\ pc = "plan"
    /\ LET output_dir == actual_output_dir(args)
           files == find_image_files(fs, args.directory, args.recursive)
       IN  /\ image_files' = files
           /\ dirs' = IF output_dir # NoDir THEN dirs \cup {output_dir} ELSE dirs
           /\ results' = PlansOf(fs, files, args, output_dir, 1)
    /\ pc' = "planned"
    /\ UNCHANGED <<args, fs, fs0, dirs0, ext_writes, runs, earlier, timestamped_files, idx,
                   current_interval_start, next_interval_start, sampled_images,
                   count, console, ret>>

\* process_images, lines 150-179, called at lines 346-355
R_ProcessImages ==
    /\ pc = "plan"
    /\ LET output_dir == actual_output_dir(args)
           files == find_image_files(fs, args.directory, args.recursive)
       IN  /\ image_files' = files
           /\ dirs' = IF output_dir # NoDir /\ ~args.dry_run
                      THEN dirs \cup {output_dir} ELSE dirs
           /\ results' = PlansOf(fs, files, args, output_dir, 1)
    /\ pc' = "planned"
    /\ UNCHANGED <<args, fs, fs0, dirs0, ext_writes, runs, earlier, timestamped_files, idx,
                   current_interval_start, next_interval_start, sampled_images,
                   count, console, ret>>

\* lines 357-372: summary, dry run, nothing to do, confirmation prompt
R_AfterPlan ==
    /\ pc = "planned"
    /\ \E confirmed \in BOOLEAN :
          IF args.dry_run \/ results = << >> \/ (~args.yes /\ ~confirmed)
          THEN pc' = "done" /\ UNCHANGED <<idx, count>>
          ELSE pc' = "pf_check" /\ idx' = 1 /\ count' = 0
    /\ UNCHANGED <<args, FsVars, image_files, timestamped_files,
                   current_interval_start, next_interval_start, sampled_images,
                   results, console, ret>>

\* lines 224-228 and 243: the next plan and its destination check, or the
\* return of processed_count
PF_Check ==
    /\ pc = "pf_check"
    /\ IF idx > Len(results)
       THEN /\ pc' = "done"
            /\ ret' = count
            /\ UNCHANGED <<idx, console>>
       ELSE /\ ret' = ret
            /\ IF DestinationExists(fs, results[idx])
               THEN /\ console' = Append(console, "Cannot process")
                    /\ idx' = idx + 1
                    /\ pc' = "pf_check"
               ELSE /\ pc' = "pf_transfer"
                    /\ UNCHANGED <<idx, console>>
    /\ UNCHANGED <<args, FsVars, image_files, timestamped_files,
                   current_interval_start, next_interval_start, sampled_images,
                   results, count>>

\* lines 230-241: the copy or the rename of one plan; an exception of either
\* is caught and reported
PF_Transfer ==
    /\ pc = "pf_transfer"
    /\ LET item == results[idx]
           src == item.original_path
           dst == item.new_path
       IN  \/ /\ item.is_copy
              /\ Exists(fs, src) /\ dst.parent \in dirs
              /\ fs' = CopyFile(fs, src, dst)
              /\ console' = Append(console, "Copied")
              /\ count' = count + 1
              /\ pc' = "pf_check"
           \/ /\ ~item.is_copy
              /\ Exists(fs, src)
              /\ fs' = MoveFile(fs, src, dst)
              /\ console' = Append(console, "Renamed")
              /\ count' = count + 1
              /\ pc' = "pf_check"
           \/ /\ \/ ~Exists(fs, src)
                 \/ item.is_copy /\ dst.parent \notin dirs
                 \/ ~item.is_copy /\ Exists(fs, dst)
              /\ console' = Append(console, "Error")
              /\ pc' = AfterException
              /\ UNCHANGED <<fs, count>>
    /\ idx' = idx + 1
    /\ UNCHANGED <<args, dirs, fs0, dirs0, ext_writes, runs, earlier, image_files, timestamped_files,
                   current_interval_start, next_interval_start, sampled_images,
                   results, ret>>

(***************************************************************************)
(* Another writer to the filesystem, while process_files runs: it removes  *)
(* the source of the plan at hand, or creates or removes its destination.  *)
(***************************************************************************)
ForeignContent == Content(0, NoTags)

Ext_Write ==
    /\ pc \in {"pf_check", "pf_transfer"}
    /\ idx <= Len(results)
    /\ ext_writes < MaxExternal
    /\ LET src == results[idx].original_path
           dst == results[idx].new_path
       IN  \/ /\ Exists(fs, src)
              /\ fs' = [p \in DOMAIN fs \ {src} |-> fs[p]]
           \/ /\ Exists(fs, dst)
              /\ fs' = [p \in DOMAIN fs \ {dst} |-> fs[p]]
           \/ /\ ~Exists(fs, dst) /\ dst.parent \in dirs
              /\ fs' = [p \in DOMAIN fs \cup {dst} |->
                           IF p = dst THEN ForeignContent ELSE fs[p]]
    /\ ext_writes' = ext_writes + 1
    /\ UNCHANGED <<pc, args, dirs, fs0, dirs0, runs, earlier, LocalVars>>

\* the same rename command is started again after a run whose transfers were
\* made: the filesystem is as that run left it, the locals are fresh
R_RunAgain ==
    /\ pc = "done"
    /\ args.fn = "rename"
    /\ count >= 1
    /\ runs < MaxRuns
    /\ runs' = runs + 1
    /\ pc' = "validate"
    /\ fs0' = fs /\ dirs0' = dirs
    /\ image_files' = << >> /\ results' = << >> /\ idx' = 0 /\ count' = 0
    /\ console' = << >> /\ ret' = None
    /\ UNCHANGED <<args, fs, dirs, ext_writes, earlier, timestamped_files,
                   current_interval_start, next_interval_start, sampled_images>>

\* the command has ended: by typer.Exit(1), by an exception that leaves it,
\* or by its return
Exited == pc \in {"exit1", "raised", "done"}

\* the exit status of a command that has ended
ExitStatus == IF pc = "done" THEN 0 ELSE 1

NextRename ==
    \/ R_Validate \/ R_ProcessImages \/ R_AfterPlan \/ PF_Check \/ PF_Transfer
    \/ Ext_Write \/ R_RunAgain

(***************************************************************************)
(* Inputs of the rename command.                                           *)
(***************************************************************************)
\* EXIF times of the command-level runs: BaseTime and 90 seconds later
CmdExifTimes == { BaseTime, DtPlus(BaseTime, Seconds(3 * TickSeconds)) }

OutputDir == <<"out">>

DefaultPrefix == "entocamtest"

RenameArgs(output_dir, inplace, off, dry_run, yes) ==
    [fn |-> "rename", directory |-> InputDir, output_dir |-> output_dir,
     inplace |-> inplace, days_offset |-> off[1], hours_offset |-> off[2],
     minutes_offset |-> off[3], recursive |-> TRUE, prefix |-> DefaultPrefix,
     dry_run |-> dry_run, yes |-> yes]

\* the destination of a .jpg photo taken at BaseTime, under arguments a
FirstDestination(a) ==
    generate_new_filepath(PhotoPath(1),
                          apply_date_offset(BaseTime, a.days_offset, a.hours_offset,
                                            a.minutes_offset),
                          a.prefix,
                          IF a.output_dir # NoDir THEN a.output_dir ELSE NoDir)

\* what is at FirstDestination before the run: nothing, a file without EXIF
\* data, or a photo taken 90 seconds after BaseTime
Preexisting ==
    { None, ForeignContent, Photo(9, DtPlus(BaseTime, Seconds(3 * TickSeconds))) }

WithFile(f, p, c) == [q \in DOMAIN f \cup {p} |-> IF q = p THEN c ELSE f[q]]

InitRename ==
    /\ pc = "validate"
    /\ \E n \in 0..MaxCmdPhotos, output_dir \in {NoDir, OutputDir}, inplace \in BOOLEAN,
          off \in SampleOffsets, dry_run \in BOOLEAN, yes \in BOOLEAN,
          pre \in Preexisting, undated \in NoTimestamp :
          \E exif \in [1..n -> CmdExifTimes \cup {undated}] :
             /\ args = RenameArgs(output_dir, inplace, off, dry_run, yes)
             /\ fs = IF pre = None THEN PhotoDir(n, exif)
                     ELSE WithFile(PhotoDir(n, exif), FirstDestination(args), pre)
             /\ dirs = IF output_dir # NoDir /\ pre # None
                       THEN {InputDir, OutputDir} ELSE {InputDir}
    /\ fs0 = fs /\ dirs0 = dirs /\ ext_writes = 0 /\ runs = 0 /\ earlier = None
    /\ IdleLocals

SpecRename == InitRename /\ [][NextRename]_vars


(***************************************************************************)
(* The sample command: sample, copy_sampled_files.                         *)
(***************************************************************************)
\* lines 340-354: summary, dry run, nothing to copy, confirmation prompt
Sample_AfterSampling ==
    /\ pc = "returned"
    /\ args.fn = "sample"
    /\ \E confirmed \in BOOLEAN :
          IF args.dry_run \/ ret = << >> \/ (~args.yes /\ ~confirmed)
          THEN pc' = "done"
          ELSE pc' = "copy_start"
    /\ UNCHANGED <<args, FsVars, LocalVars>>

\* lines 212-216: create the output directory when it is missing
Copy_Start ==
    /\ pc = "copy_start"
    /\ dirs' = dirs \cup {args.output_dir}
    /\ count' = 0
    /\ idx' = 1
    /\ pc' = "copy"
    /\ UNCHANGED <<args, fs, fs0, dirs0, ext_writes, runs, earlier, image_files, timestamped_files,
                   current_interval_start, next_interval_start, sampled_images,
                   results, console, ret>>

\* faulty variant: the sample's subdirectory is kept also without
\* preserve_structure
TargetDir_KeepsSubdirectory(original_path, output_dir, preserve_structure) ==
    IF original_path.parent # << >>
    THEN Append(output_dir, original_path.parent[Len(original_path.parent)])
    ELSE output_dir

\* lines 221-232: the directory a sample is copied to
TargetDir(original_path, output_dir, preserve_structure) ==
    IF preserve_structure /\ original_path.parent # << >>
    THEN Append(output_dir, original_path.parent[Len(original_path.parent)])
    ELSE output_dir

\* line 234: target_path = target_dir / original_path.name
TargetPath(original_path, output_dir, preserve_structure) ==
    Path(TargetDir(original_path, output_dir, preserve_structure),
         original_path.stem, original_path.suffix)

\* lines 218-245: one sample: skipped when its target exists, else copied
Copy_Item ==
    /\ pc = "copy"
    /\ idx <= Len(ret)
    /\ LET src == ret[idx].original_path
           dst == TargetPath(src, args.output_dir, args.preserve_structure)
       IN  /\ dirs' = dirs \cup {dst.parent}
           /\ IF Exists(fs, dst)
              THEN /\ console' = Append(console, "File already exists")
                   /\ UNCHANGED <<fs, count>>
              ELSE IF Exists(fs, src)
                   THEN /\ fs' = CopyFile(fs, src, dst)
                        /\ count' = count + 1
                        /\ console' = Append(console, "Copied")
                   ELSE /\ console' = Append(console, "Error")
                        /\ UNCHANGED <<fs, count>>
    /\ idx' = idx + 1
    /\ UNCHANGED <<pc, args, fs0, dirs0, ext_writes, runs, earlier, image_files, timestamped_files,
                   current_interval_start, next_interval_start, sampled_images,
                   results, ret>>

\* lines 247 and 356-357: copied_count is returned and reported
Copy_Return ==
    /\ pc = "copy"
    /\ idx > Len(ret)
    /\ pc' = "done"
    /\ UNCHANGED <<args, FsVars, LocalVars>>

NextSample ==
    \/ S_Collect \/ S_Sort \/ S_For \/ S_While
    \/ Sample_AfterSampling \/ Copy_Start \/ Copy_Item \/ Copy_Return

(***************************************************************************)
(* Inputs of the sample command: photos in the directory and in its        *)
(* subdirectories, two of them with the same file name.                    *)
(***************************************************************************)
CmdPhotoPath(i) ==
    CASE i = 1 -> Path(InputDir, "IMG_1", ".jpg")
      [] i = 2 -> Path(<<"in", "a">>, "IMG_1", ".jpg")
      [] OTHER -> Path(IF i % 2 = 1 THEN <<"in", "b">> ELSE InputDir,
                       "IMG_" \o Decimal(i), ".JPG")

SampleArgs(interval, off, recursive, preserve_structure, dry_run, yes) ==
    [fn |-> "sample", directory |-> InputDir, output_dir |-> OutputDir,
     interval_minutes |-> interval, days_offset |-> off[1],
     hours_offset |-> off[2], minutes_offset |-> off[3],
     recursive |-> recursive, preserve_structure |-> preserve_structure,
     dry_run |-> dry_run, yes |-> yes]

\* the output directory before the run: absent, empty, or holding IMG_1.jpg
OutputStates == {"absent", "empty", "holds IMG_1.jpg"}

InitSample ==
    /\ pc = "collect"
    /\ \E n \in 0..MaxCmdPhotos, interval \in 1..MaxInterval, off \in SampleOffsets,
          recursive \in BOOLEAN, preserve_structure \in BOOLEAN,
          dry_run \in BOOLEAN, yes \in BOOLEAN, out \in OutputStates,
          undated \in NoTimestamp :
          \E exif \in [1..n -> CmdExifTimes \cup {undated}] :
             /\ args = SampleArgs(interval, off, recursive, preserve_structure,
                                  dry_run, yes)
             /\ fs = LET photos == PhotoDirOf([i \in 1..n |-> CmdPhotoPath(i)], exif)
                     IN  IF out = "holds IMG_1.jpg"
                         THEN WithFile(photos, Path(OutputDir, "IMG_1", ".jpg"),
                                       ForeignContent)
                         ELSE photos
             /\ dirs = {InputDir, <<"in", "a">>, <<"in", "b">>}
                           \cup (IF out = "absent" THEN {} ELSE {OutputDir})
    /\ fs0 = fs /\ dirs0 = dirs /\ ext_writes = 0 /\ runs = 0 /\ earlier = None
    /\ IdleLocals

SpecSample == InitSample /\ [][NextSample]_vars

(***************************************************************************)
(* Both commands.                                                          *)
(***************************************************************************)
Init == InitSample \/ InitRename

Next == NextSample \/ NextRename

Spec == Init /\ [][Next]_vars


(***************************************************************************)
(* Properties of the rename command (SpecRename), the sample command       *)
(* (SpecSample), both (Spec) and the direct calls (SpecCalls).             *)
(***************************************************************************)
\* the photos of the directory that process_images gets an EXIF datetime for
DatedPhotos ==
    { p \in DOMAIN fs0 : /\ Lower(p.suffix) \in image_extensions
                         /\ IsPrefix(args.directory, p.parent)
                         /\ get_exif_datetime(fs0, p) # None }

PlansFor(p) == { i \in 1..Len(results) : results[i].original_path = p }

\* C4: in process_images a photo whose computed destination already exists
\* on disk produces no transfer plan, while a photo with no existing
\* destination produces exactly one plan.
C4_ExistingDestinationNotPlanned ==
    (pc = "planned" /\ args.fn = "rename") =>
        \A p \in DatedPhotos :
            LET new_path == PlanOf(fs0, p, args, actual_output_dir(args)).new_path
            IN  IF Exists(fs0, new_path)
                THEN Cardinality(PlansFor(p)) = 0
                ELSE Cardinality(PlansFor(p)) = 1

\* C5: the samples returned to the sample command hold no photo whose target
\* file name already exists in the output directory.
C5_ExistingTargetsExcluded ==
    (pc = "returned" /\ args.fn = "sample") =>
        \A i \in 1..Len(ret) :
            ~Exists(fs0, TargetPath(ret[i].original_path, args.output_dir, FALSE))

InProcessFiles == pc \in {"pf_check", "pf_transfer"}

\* the first plan with the destination of plan i
FirstPlanFor(i) ==
    CHOOSE j \in 1..i :
        /\ results[j].new_path = results[i].new_path
        /\ \A k \in 1..(j - 1) : results[k].new_path # results[i].new_path

\* C6: with no other writer, process_files never replaces the content of an
\* existing file; a plan whose destination exists at the re-check leaves the
\* filesystem as it is and is not counted; after the run a destination that
\* the run created holds the content of the first plan that targeted it.
C6_NeverOverwrites ==
    [][ (InProcessFiles /\ ext_writes' = 0) =>
            /\ \A p \in DOMAIN fs \cap DOMAIN fs' : fs'[p] = fs[p]
            /\ (pc = "pf_check" /\ idx <= Len(results)
                    /\ Exists(fs, results[idx].new_path))
                   => (fs' = fs /\ count' = count /\ idx' = idx + 1)
            /\ pc' = "done" =>
                   \A i \in 1..Len(results) :
                       LET dst == results[i].new_path
                       IN  ~Exists(fs0, dst) =>
                               /\ Exists(fs', dst)
                               /\ fs'[dst] = fs0[results[FirstPlanFor(i)].original_path]
      ]_vars

\* C6 witness: two plans had the same destination, one was transferred, and
\* the destination holds the content of the first
C6_Witness ==
    /\ pc = "done" /\ args.fn = "rename" /\ ext_writes = 0
    /\ Len(results) >= 2
    /\ results[1].new_path = results[2].new_path
    /\ ~Exists(fs0, results[1].new_path)
    /\ Len(console) = Len(results)
    /\ console[2] = "Cannot process"
    /\ fs[results[1].new_path] = fs0[results[1].original_path]

Successes == { i \in 1..Len(console) : console[i] \in {"Copied", "Renamed"} }

\* the plan at hand names its own source as its destination
OntoItself ==
    /\ idx \in 1..Len(results)
    /\ results[idx].new_path = results[idx].original_path

\* C7: a failing plan of process_files is absorbed: no exception leaves the
\* function, the count moves exactly when a transfer went through (which
\* changes the filesystem unless the plan renames a file onto its own name),
\* every plan is attempted, and the returned count is the number of
\* successful plans.
C7_FailuresAbsorbed ==
    [][ /\ pc' # "raised"
        /\ (InProcessFiles /\ ext_writes' = ext_writes) =>
               \/ /\ count' = count + 1
                  /\ pc = "pf_transfer"
                  /\ console' = Append(console, IF results[idx].is_copy
                                                THEN "Copied" ELSE "Renamed")
                  /\ fs' # fs \/ OntoItself
               \/ count' = count /\ fs' = fs
        /\ (pc = "pf_check" /\ pc' = "done") =>
               /\ Len(console) = Len(results)
               /\ ret' = Cardinality(Successes)
      ]_vars

\* C7 witness: three plans, one failed on a removed source, two succeeded
C7_Witness ==
    /\ pc = "done" /\ args.fn = "rename"
    /\ Len(results) = 3
    /\ Len(console) = 3
    /\ ret = 2
    /\ \E i \in 1..3 : console[i] = "Error"

\* what a counted transfer does to the filesystem; with everyPlan the source
\* of a move is required to be gone after every plan, without it only after
\* a plan whose destination is another path than its source
TransferEffects(everyPlan) ==
    /\ (pc = "pf_transfer" /\ count' = count + 1) =>
           LET src == results[idx].original_path
               dst == results[idx].new_path
           IN  /\ IF args.output_dir = NoDir
                  THEN /\ (everyPlan \/ dst # src) => ~Exists(fs', src)
                       /\ fs'[dst] = fs[src]
                  ELSE /\ Exists(fs', src) /\ fs'[src] = fs[src]
                       /\ fs'[dst] = fs[src]
               /\ DOMAIN fs' \ {src, dst} = DOMAIN fs \ {src, dst}
               /\ \A p \in DOMAIN fs \ {src, dst} : fs'[p] = fs[p]
               /\ dirs' = dirs
    /\ (pc = "copy" /\ count' = count + 1) =>
           LET src == ret[idx].original_path
               dst == TargetPath(src, args.output_dir, args.preserve_structure)
           IN  /\ Exists(fs', src) /\ fs'[src] = fs[src]
               /\ fs'[dst] = fs[src]
               /\ DOMAIN fs' \ {dst} = DOMAIN fs \ {dst}
               /\ \A p \in DOMAIN fs \ {dst} : fs'[p] = fs[p]
    /\ \A i \in 1..Len(results') :
           results'[i].is_copy = (args.output_dir # NoDir)

\* C8 as stated: a successful transfer is a move when no output directory
\* was given (afterwards the source path no longer exists and the destination
\* holds its content) and a copy when one was given; the plans of one run are
\* all of one kind; no file other than the source and the destination
\* changes.
C8_MoveOrCopy == [][TransferEffects(TRUE)]_vars

\* C8 amended: as above, but the source path is gone after a move only when
\* the plan's destination is another path than its source; a file renamed
\* onto its own name is counted as moved and is still at its path.
C8_MoveUnlessOntoItself == [][TransferEffects(FALSE)]_vars

\* C8 witness: an in-place run moved a file: its source is gone and its
\* destination holds the content
C8_Witness ==
    /\ pc = "done" /\ args.fn = "rename" /\ args.output_dir = NoDir
    /\ ext_writes = 0
    /\ count >= 1
    /\ Len(results) >= 2
    /\ ~Exists(fs, results[1].original_path)
    /\ fs[results[1].new_path] = fs0[results[1].original_path]

\* four digits, zero-padded
Pad4(n) == Pad2(n \div 100) \o Pad2(n % 100)

\* the timestamp as the 14 digits YYYYMMDDHHMMSS
FourteenDigits(dt) ==
    LET ymd == Ord2Ymd(dt.ord)
    IN  Pad4(ymd.year) \o Pad2(ymd.month) \o Pad2(ymd.day)
            \o Pad2(dt.sec \div SecondsPerHour)
            \o Pad2((dt.sec % SecondsPerHour) \div SecondsPerMinute)
            \o Pad2(dt.sec % SecondsPerMinute)

\* C9: generate_new_filepath returns the file name prefix + '-' + the
\* timestamp as 14 digits YYYYMMDDHHMMSS + the lower-cased extension, in the
\* output directory when one is given and else in the source's directory.
C9_FourteenDigitName ==
    args.fn = "generate_new_filepath" =>
        /\ PathName(ret) = args.prefix \o "-" \o FourteenDigits(args.timestamp)
                               \o Lower(args.original_path.suffix)
        /\ ret.parent = IF args.output_dir # NoDir THEN args.output_dir
                        ELSE args.original_path.parent

\* C10: apply_date_offset(t, 0, 0, 0) is t, and apply_date_offset of an
\* absent timestamp is absent for every offset.
C10_ZeroOffsetIdentity ==
    args.fn = "apply_date_offset" =>
        /\ (args.days = 0 /\ args.hours = 0 /\ args.minutes = 0) => ret = args.dt
        /\ args.dt = None => ret = None

\* C10 witness: a zero offset was applied to a timestamp at midnight
C10_Witness ==
    /\ args.fn = "apply_date_offset"
    /\ args.dt = Dt(738969, 0)
    /\ args.days = 0 /\ args.hours = 0 /\ args.minutes = 0
    /\ ret = Dt(738969, 0)

\* t plus (1440*d + 60*h + m) minutes, computed on the ordinal and the second
PlusMinutes(dt, d, h, m) ==
    LET minutes == 1440 * d + 60 * h + m
        s == dt.sec + (minutes % 1440) * SecondsPerMinute
    IN  [ord |-> dt.ord + (minutes \div 1440) + (s \div SecondsPerDay),
         sec |-> s % SecondsPerDay]

\* C11 as stated: for every timestamp and all signed offsets, applying
\* apply_date_offset twice equals applying it once with the component-wise
\* sums of the offsets.
C11_ComposeAllOffsets ==
    args.fn = "apply_date_offset_twice" =>
        ret = apply_date_offset(args.dt, args.d1 + args.d2, args.h1 + args.h2,
                                args.m1 + args.m2)

\* C11 amended: whenever the first application stays within the range of
\* datetime (years 1 to 9999), applying apply_date_offset twice equals
\* applying it once with the component-wise sums, and a result in range is
\* exactly t plus (1440*d + 60*h + m) minutes; a first application that
\* leaves the range raises OverflowError.
C11_ComposeWithinRange ==
    /\ args.fn = "apply_date_offset_twice" =>
           LET first == apply_date_offset(args.dt, args.d1, args.h1, args.m1)
               d == args.d1 + args.d2
               h == args.h1 + args.h2
               m == args.m1 + args.m2
           IN  IF first = OverflowError THEN ret = OverflowError
               ELSE /\ ret = apply_date_offset(args.dt, d, h, m)
                    /\ ret # OverflowError => ret = PlusMinutes(args.dt, d, h, m)
    /\ (args.fn = "apply_date_offset" /\ args.dt # None /\ ret # OverflowError) =>
           ret = PlusMinutes(args.dt, args.days, args.hours, args.minutes)

\* C11 witness: two applications with negative and positive components that
\* cross a year boundary backwards
C11_Witness ==
    /\ args.fn = "apply_date_offset_twice"
    /\ args.dt = Dt(738969, 37845)
    /\ args.d1 = -418 /\ args.h1 = -25 /\ args.m1 = 90
    /\ args.d2 = 1 /\ args.h2 = 2 /\ args.m2 = -30
    /\ ret = Dt(738551, 45045)

\* the tags of the file get_exif_datetime was called on, by preference
TagsByPreference ==
    LET tags == args.files[args.file_path].tags
    IN  <<tags["EXIF DateTimeOriginal"], tags["EXIF DateTimeDigitized"],
          tags["Image DateTime"]>>

\* C12: get_exif_datetime returns the parsed value of the first present field
\* in the order original-capture, digitized, generic-image; it returns None
\* when no field is present, when the file cannot be read, or when the first
\* present field does not parse (a later field is then not consulted).
C12_FirstPresentField ==
    args.fn = "get_exif_datetime" =>
        IF args.file_path \notin DOMAIN args.files
              \/ ~args.files[args.file_path].readable
        THEN ret = None
        ELSE LET present == { i \in 1..3 : TagsByPreference[i] # Absent }
             IN  IF present = {} THEN ret = None
                 ELSE LET first == CHOOSE i \in present : \A j \in present : i <= j
                      IN  IF TagsByPreference[first] = Malformed THEN ret = None
                          ELSE ret = TagsByPreference[first]

\* C12 witness: the original-capture field is absent, the digitized field
\* does not parse and the generic field does; the result is None
C12_Witness ==
    /\ args.fn = "get_exif_datetime"
    /\ args.file_path \in DOMAIN args.files
    /\ args.files[args.file_path].readable
    /\ TagsByPreference = <<Absent, Malformed, Dt(738969, 37845)>>
    /\ ret = None

\* the image files process_images and process_images_for_sampling discover
DiscoveredPhotos ==
    { p \in DOMAIN fs0 : /\ Lower(p.suffix) \in image_extensions
                         /\ IF args.recursive THEN IsPrefix(args.directory, p.parent)
                                               ELSE p.parent = args.directory }

UndatedPhotos == { p \in DiscoveredPhotos : get_exif_datetime(fs0, p) = None }

\* the corrected timestamps of the discovered photos that have a timestamp
DatedTimes ==
    { apply_date_offset(get_exif_datetime(fs0, p), args.days_offset,
                        args.hours_offset, args.minutes_offset) :
        p \in DiscoveredPhotos \ UndatedPhotos }

\* C13: in both pipelines a discovered photo without a timestamp is passed
\* over and the run goes on: it is in no transfer plan that process_images
\* returns (process_files works through that list) and in no sample, the
\* interval boundaries are on the grid anchored at the earliest timestamp of
\* the photos that have one, every photo with a timestamp is still planned
\* or swept, and every record produced has its raw and corrected timestamps.
C13_UndatedPhotoSkipped ==
    /\ (args.fn = "rename" /\ pc = "planned") =>
           /\ \A i \in 1..Len(results) :
                  /\ results[i].original_path \notin UndatedPhotos
                  /\ results[i].exif_datetime # None
                  /\ results[i].exif_datetime = get_exif_datetime(fs0, results[i].original_path)
                  /\ results[i].corrected_datetime # None
           /\ { results[i].original_path : i \in 1..Len(results) }
                  = DiscoveredPhotos \ UndatedPhotos
    /\ (args.fn \in {"sample", "process_images_for_sampling"}
            /\ pc \in {"sort", "for", "while", "returned", "copy_start", "copy", "done"}) =>
           /\ \A i \in 1..Len(timestamped_files) :
                  /\ timestamped_files[i].path \notin UndatedPhotos
                  /\ timestamped_files[i].dt # None
           /\ { timestamped_files[i].path : i \in 1..Len(timestamped_files) }
                  = DiscoveredPhotos \ UndatedPhotos
           /\ \A i \in 1..Len(sampled_images) :
                  /\ sampled_images[i].original_path \notin UndatedPhotos
                  /\ get_exif_datetime(fs0, sampled_images[i].original_path) # None
                  /\ sampled_images[i].timestamp # None
           /\ current_interval_start # None =>
                  LET off == DtDiffSeconds(current_interval_start, EarliestOf(DatedTimes))
                  IN  /\ off >= 0
                      /\ off % (args.interval_minutes * SecondsPerMinute) = 0
                      /\ next_interval_start =
                             DtPlus(current_interval_start,
                                    Seconds(args.interval_minutes * SecondsPerMinute))
           /\ (pc = "returned" /\ DatedTimes # {}) =>
                  /\ ret # << >>
                  /\ ret[1].timestamp = EarliestOf(DatedTimes)

\* C13 witness: the sampler returned two samples from a directory in which
\* the earliest-named photo has no usable timestamp: its original-capture
\* field does not parse
C13_Witness ==
    /\ pc = "returned"
    /\ args.fn = "sample"
    /\ Len(ret) = 2
    /\ \E p \in UndatedPhotos : fs0[p].tags["EXIF DateTimeOriginal"] = Malformed
    /\ Len(image_files) = 3

\* C14: with dry-run set, the rename command and the sample command compute
\* their plans and change nothing on the filesystem: no file is moved or
\* copied, no directory is created (the output directory included), and the
\* transfer loops are never entered, whatever the other options are.
C14_DryRunMutatesNothing ==
    (args.fn \in {"rename", "sample"} /\ args.dry_run) =>
        /\ fs = fs0
        /\ dirs = dirs0
        /\ pc \notin {"pf_check", "pf_transfer", "copy_start", "copy"}
        /\ count = 0 /\ console = << >>
        /\ (pc = "done" /\ args.fn = "rename") =>
               { results[i].original_path : i \in 1..Len(results) }
                   = DiscoveredPhotos \ UndatedPhotos
        /\ (pc = "done" /\ args.fn = "sample") =>
               (ret = << >>) = (DatedTimes = {})

\* C14 witness: a dry run of rename towards an output directory that does not
\* exist ended with two plans and without the directory
C14_Witness ==
    /\ pc = "done" /\ args.fn = "rename" /\ args.dry_run
    /\ ~args.inplace /\ args.output_dir = OutputDir
    /\ OutputDir \notin dirs0 /\ OutputDir \notin dirs
    /\ Len(results) = 2

InvalidOptions ==
    \/ ~args.inplace /\ args.output_dir = NoDir
    \/ args.inplace /\ args.output_dir # NoDir

Overwrites ==
    /\ InProcessFiles
    /\ ext_writes' = ext_writes
    /\ \E p \in DOMAIN fs \cap DOMAIN fs' : fs'[p] # fs[p]

\* C16: the check of the destination protects only while process_files is
\* the single writer.  With no write by another writer the destination is
\* still absent when the transfer runs and no step overwrites a file; when
\* another writer creates the destination between the check and the
\* transfer, the transfer that succeeds replaces that file, which
\* process_files did not create, by the source's content; every overwrite is
\* of this kind.
C16_CheckSafeOnlyForSingleWriter ==
    [][ /\ (pc = "pf_transfer" /\ ext_writes = 0) =>
               ~Exists(fs, results[idx].new_path)
        /\ (ext_writes' = 0) => ~Overwrites
        /\ Overwrites =>
               /\ pc = "pf_transfer" /\ ext_writes > 0
               /\ fs[results[idx].new_path] = ForeignContent
               /\ \A p \in DOMAIN fs \cap DOMAIN fs' :
                      fs'[p] # fs[p] => p = results[idx].new_path
        /\ (pc = "pf_transfer" /\ Exists(fs, results[idx].new_path)
                /\ count' = count + 1) =>
               /\ fs'[results[idx].new_path] = fs[results[idx].original_path]
               /\ fs[results[idx].new_path] = ForeignContent
      ]_vars

\* C16 witness: a copy run with one plan whose destination did not exist at
\* the start; the other writer made its one write, the source is still there
\* and the plan was reported as copied: the write created the destination
\* after the check, and the copy replaced it by the source's content
C16_Witness ==
    /\ args.fn = "rename" /\ pc = "done"
    /\ Len(results) = 1
    /\ results[1].is_copy
    /\ ~Exists(fs0, results[1].new_path)
    /\ ext_writes = 1
    /\ console = <<"Copied">>
    /\ Exists(fs, results[1].original_path)
    /\ fs[results[1].new_path] = fs0[results[1].original_path]

\* C17: when a rename run has made its transfers and the same command is run
\* again on what it left, with no other writer, the second run transfers no
\* file and leaves the filesystem as the first run left it: every plan it
\* computes finds its destination present.
C17_SecondRunTransfersNothing ==
    (args.fn = "rename" /\ runs >= 1 /\ ext_writes = 0) =>
        /\ fs = fs0 /\ dirs = dirs0
        /\ count = 0
        /\ pc # "pf_transfer"
        /\ \A i \in 1..Len(results) : Exists(fs, results[i].new_path)

\* the place of a file in the discovery order
DiscoveryIndex(p) == CHOOSE k \in 1..Len(image_files) : image_files[k] = p

\* C18: the sampler's sort is stable: after it the files are in ascending
\* order of corrected timestamp and files with equal timestamps are in
\* discovery order, so of the photos that tie for the timestamp of a sample
\* the one discovered first is the one selected.
C18_StableSort ==
    (args.fn = "process_images_for_sampling" /\ pc \in {"for", "while", "returned"}) =>
        /\ \A i, j \in 1..Len(timestamped_files) :
               i < j =>
                   /\ DtGE(timestamped_files[j].dt, timestamped_files[i].dt)
                   /\ timestamped_files[i].dt = timestamped_files[j].dt =>
                          DiscoveryIndex(timestamped_files[i].path)
                              < DiscoveryIndex(timestamped_files[j].path)
        /\ pc = "returned" =>
               \A i \in 1..Len(ret) :
                   \A k \in 1..Len(timestamped_files) :
                       timestamped_files[k].dt = ret[i].timestamp =>
                           DiscoveryIndex(ret[i].original_path)
                               <= DiscoveryIndex(timestamped_files[k].path)

\* C18 witness: two photos tie for the earliest timestamp of the second
\* window, and the sample of that window is the one discovered first
C18_Witness ==
    /\ args.fn = "process_images_for_sampling" /\ pc = "returned"
    /\ Len(timestamped_files) = 3 /\ Len(ret) = 2
    /\ timestamped_files[2].dt = timestamped_files[3].dt
    /\ ret[2].original_path = timestamped_files[2].path
    /\ DiscoveryIndex(timestamped_files[2].path) < DiscoveryIndex(timestamped_files[3].path)

\* a step of the sweep: a turn of the window-advance loop is made while the
\* photo's timestamp is not before next_interval_start and moves
\* next_interval_start forward by the width; the loop is left once
\* next_interval_start is past the timestamp, the photo then lying in the
\* interval reached; every other step goes to the next photo
SweepStepAdvances ==
    /\ (pc = "while" /\ pc' = "while") =>
           /\ DtGE(timestamped_files[idx].dt, next_interval_start)
           /\ DtLT(next_interval_start, next_interval_start')
           /\ DtDiffSeconds(next_interval_start', next_interval_start)
                  = args.interval_minutes * SecondsPerMinute
           /\ current_interval_start' = next_interval_start
           /\ idx' = idx
    /\ (pc = "while" /\ pc' = "for") =>
           /\ DtLT(timestamped_files[idx].dt, next_interval_start)
           /\ DtGE(timestamped_files[idx].dt, current_interval_start)
           /\ idx' = idx + 1
    /\ (pc = "for" /\ pc' = "for") => idx' = idx + 1
    /\ (pc = "for" /\ pc' = "while") =>
           DtGE(timestamped_files[idx].dt, next_interval_start)

\* C19: for every collection of photos and every positive interval width the
\* sweep ends: each turn of the window-advance loop strictly increases
\* next_interval_start, the loop stops once next_interval_start exceeds the
\* photo's timestamp, and the function returns.
C19_SweepTerminates == [][SweepStepAdvances]_SweepPosition /\ <>(pc = "returned")

\* C19 witness: the sweep over the two photos an hour apart returned after
\* the loop had advanced the window six times, to the interval that ends at
\* 1:10
C19_Witness ==
    /\ SamplingReturned
    /\ fs0 = GapExampleFs
    /\ args.interval_minutes = 10
    /\ current_interval_start = Dt(738969, 3600)
    /\ next_interval_start = Dt(738969, 4200)
    /\ idx = 3

\* C20: process_images_for_sampling returns for every interval_minutes the
\* sample command accepts, 0 included, when a photo has a timestamp.
C20_TerminatesForAnyInterval == <>(pc = "returned")

\* the offset of a call in seconds
OffsetSeconds(a) ==
    a.days_offset * SecondsPerDay + a.hours_offset * SecondsPerHour
        + a.minutes_offset * SecondsPerMinute

\* the second call selected the photos of the first, in the same order, with
\* every timestamp and interval start moved by the difference of the offsets
SameSelectionShifted ==
    LET shift == OffsetSeconds(args) - OffsetSeconds(earlier.args)
    IN  /\ Len(ret) = Len(earlier.ret)
        /\ \A i \in 1..Len(ret) :
               /\ ret[i].original_path = earlier.ret[i].original_path
               /\ DtDiffSeconds(ret[i].timestamp, earlier.ret[i].timestamp) = shift
               /\ DtDiffSeconds(ret[i].interval_start, earlier.ret[i].interval_start)
                      = shift

\* the second of two calls of process_images_for_sampling has ended
SecondCallEnded ==
    /\ args.fn = "process_images_for_sampling"
    /\ earlier # None
    /\ pc \in {"returned", "raised"}

\* C21 as stated: for any collection, positive width and two offsets, the
\* second call selects the same source paths in the same order as the first,
\* and each timestamp and interval_start differs by exactly the difference
\* of the offsets.
C21_AnyTwoOffsets ==
    SecondCallEnded => (pc = "returned" /\ SameSelectionShifted)

\* C21 amended: the same, for two offsets under which both calls return,
\* that is, no corrected timestamp and no interval boundary leaves the years
\* 1..9999 of datetime.
C21_OffsetsWithinRange ==
    (SecondCallEnded /\ pc = "returned") => SameSelectionShifted

\* C21 witness: three photos, the second call returned two samples whose
\* timestamps are those of the first call moved by a non-zero difference
C21_Witness ==
    /\ SecondCallEnded /\ pc = "returned"
    /\ Len(timestamped_files) = 3
    /\ Len(ret) = 2
    /\ Len(earlier.ret) = 2
    /\ ret[2].timestamp # earlier.ret[2].timestamp
    /\ ret[2].original_path = earlier.ret[2].original_path

\* copy_sampled_files is at a sample of its loop
AtSample == pc = "copy" /\ idx <= Len(ret)

\* the samples before sample j that have its file name and another path
EarlierNamesakes(j) ==
    { i \in 1..(j - 1) : /\ PathName(ret[i].original_path) = PathName(ret[j].original_path)
                         /\ ret[i].original_path # ret[j].original_path }

\* what copy_sampled_files does at one sample, and what it has done when it
\* returns
CopiesIffNoSameName ==
    /\ AtSample =>
           LET src == ret[idx].original_path
               dst == TargetPath(src, args.output_dir, args.preserve_structure)
           IN  /\ PathName(dst) = PathName(src)
               /\ (count' = count + 1) = ~Exists(fs, dst)
               /\ Exists(fs, dst) => (fs' = fs /\ count' = count)
               /\ ~Exists(fs, dst) =>
                      /\ DOMAIN fs' = DOMAIN fs \cup {dst}
                      /\ fs'[dst] = fs[src]
                      /\ \A p \in DOMAIN fs : fs'[p] = fs[p]
    /\ (pc = "copy" /\ pc' = "done") =>
           /\ Len(console) = Len(ret)
           /\ count = Cardinality({ i \in 1..Len(console) : console[i] = "Copied" })
           /\ count = Cardinality(DOMAIN fs \ DOMAIN fs0)
           /\ ~args.preserve_structure =>
                  \A j \in 1..Len(ret) :
                      EarlierNamesakes(j) # {} =>
                          /\ console[j] = "File already exists"
                          /\ count < Len(ret)
                          /\ fs[TargetPath(ret[j].original_path, args.output_dir, FALSE)]
                                 # fs0[ret[j].original_path]

\* C22: copy_sampled_files copies a sample if and only if no file with the
\* sample's file name is in its target directory at that moment, and returns
\* the number copied; so, without preserve_structure, of two samples from
\* different subdirectories with one file name only the first is copied and
\* the count is smaller than the number of samples, also when the output
\* directory started empty.
C22_CopiedIffNoSameName == [][CopiesIffNoSameName]_vars

\* C22 witness: the output directory did not exist, two samples named
\* IMG_1.jpg from two directories were selected, and one file was copied
C22_Witness ==
    /\ pc = "done" /\ args.fn = "sample"
    /\ ~args.preserve_structure
    /\ OutputDir \notin dirs0
    /\ Len(ret) = 2 /\ Len(console) = 2
    /\ EarlierNamesakes(2) = {1}
    /\ count = 1
    /\ fs[Path(OutputDir, "IMG_1", ".jpg")] = fs0[ret[1].original_path]

\* the command came to its confirmation prompt (no dry run, something to
\* transfer, no --yes) and ended without entering its transfer loop: the
\* prompt was answered negatively
Cancelled ==
    /\ pc = "done"
    /\ args.fn \in {"rename", "sample"}
    /\ ~args.dry_run /\ ~args.yes
    /\ console = << >>
    /\ IF args.fn = "rename" THEN results # << >> ELSE ret # << >>

\* C23: when the confirmation prompt is answered negatively, the rename
\* command and the sample command leave the filesystem as it was when the
\* command started: no file is moved or copied and no directory is created.
C23_CancelledChangesNothing ==
    Cancelled => (fs = fs0 /\ dirs = dirs0)
====
